---- MODULE Spec2Model ----
(***************************************************************************)
(* A model of fb2text.ParseBook: the loop that folds the tokens of an FB2  *)
(* document (start-tag, end-tag, character data) into a BookInfo record    *)
(* and a list of annotated lines.                                          *)
(*                                                                         *)
(* A Go string is a sequence of atoms: a character ("a", " ", "\n", ...)   *)
(* or one of the markers the parser writes ("{{epi}}", ...), kept whole    *)
(* because source text is taken not to contain marker strings.             *)
(***************************************************************************)
EXTENDS Integers, Sequences, FiniteSets, TLC

\* ------------------------------------------------------------- bounds
\* Tokens the decoder hands out in one run of the loop, for a document of
\* any shape and for a document of the description's fields alone.
MaxTokens == 8
MaxInfoTokens == 10
\* Elements open at once.
MaxDepth == 5
MaxPath == 4
\* Characters of one chunk of character data taken alone.
MaxChunk == 4

\* ------------------------------------------------------------ strings
SECTION == "{{section}}"
TITLE   == "{{title}}"
EPI     == "{{epi}}"
EPIAUTH == "{{epiauth}}"
EMON    == "{{emon}}"
EMOFF   == "{{emoff}}"

LineStartMarkers == {SECTION, TITLE, EPI, EPIAUTH}
InlineMarkers    == {EMON, EMOFF}

\* "\n\r " of xs.Count's pattern.
Blank == {"\n", "\r", " "}

\* xs.Count(ss, "\n\r "): how many characters of ss are in the pattern.
RECURSIVE Count(_, _)
Count(ss, pattern) ==
    IF ss = <<>> THEN 0
    ELSE (IF Head(ss) \in pattern THEN 1 ELSE 0) + Count(Tail(ss), pattern)

\* xs.Translate(ss, "\n\r", "  "): newline and carriage return become a space.
Translate(ss) ==
    [i \in 1..Len(ss) |-> IF ss[i] \in {"\n", "\r"} THEN " " ELSE ss[i]]

\* xs.Squeeze(ss, " "): every run of spaces becomes one space.
RECURSIVE SqueezeBug(_)
SqueezeBug(ss) ==
    IF Len(ss) < 2 THEN ss
    ELSE IF Head(ss) = " " /\ ss[2] = " "
         THEN <<" ">> \o SqueezeBug(Tail(Tail(ss)))
    ELSE <<Head(ss)>> \o SqueezeBug(Tail(ss))
RECURSIVE Squeeze(_)
Squeeze(ss) ==
    IF Len(ss) < 2 THEN ss
    ELSE IF Head(ss) = " " /\ ss[2] = " " THEN Squeeze(Tail(ss))
    ELSE <<Head(ss)>> \o Squeeze(Tail(ss))

\* Lines 277-279: what a chunk of character data adds to the line buffer.
Normal(ss) ==
    IF Count(ss, Blank) # Len(ss) THEN Squeeze(Translate(ss)) ELSE <<>>

\* Lines 276-281: the line buffer after a chunk of character data.
AppendChunkBug(line, ss) ==
    IF Count(ss, Blank) # Len(ss)
    THEN Squeeze(Translate(ss))
    ELSE line
AppendChunk(line, ss) ==
    IF Count(ss, Blank) # Len(ss)
    THEN line \o Squeeze(Translate(ss))
    ELSE line

\* ------------------------------------------------- ancestry predicates
isInBookInfoBug(path) ==
    /\ Len(path) = 3
    /\ path[1] = "FictionBook"
    /\ path[2] = "description"
    /\ path[3] = "title-info"
isInBookInfo(path) ==
    /\ Len(path) >= 3
    /\ path[1] = "FictionBook"
    /\ path[2] = "description"
    /\ path[3] = "title-info"

isInBookContent(path) ==
    /\ Len(path) >= 2
    /\ path[1] = "FictionBook"
    /\ path[2] = "body"

PassThrough == {"p", "emphasis", "text-author", "strong"}

\* The walk of isInside from index n (1-based) towards the root.
RECURSIVE insideFrom(_, _, _)
insideFrom(path, sectionName, n) ==
    IF n < 1 THEN FALSE
    ELSE IF path[n] = sectionName THEN TRUE
    ELSE IF path[n] \in PassThrough THEN insideFrom(path, sectionName, n - 1)
    ELSE FALSE

isInsideBug(path, sectionName) ==
    \E i \in 1..Len(path) : path[i] = sectionName

isInside(path, sectionName) == insideFrom(path, sectionName, Len(path))

\* --------------------------------------------------------------- state
VARIABLES
    opt,        \* option{parseBody, skipSystemLines} after the FOptions ran
    tags,       \* the stack of open element names
    currLine,   \* the line buffer
    lines,      \* the output lines
    binfo,      \* the BookInfo being filled
    t,          \* the token decoder.Token() returned last
    pc,         \* where the call is: in the loop, returned, or panicked
    n,          \* tokens read so far
    doc,        \* the document behind the decoder, when it is a fixed one
    texts,      \* per open element, the text read inside it so far
    closedAuthors, \* author end-tags handled inside the metadata region
    authorNames,   \* first-name / last-name end-tags recorded since <author>
    lastMeta,   \* per metadata field, the value of its last occurrence
    occ,        \* per metadata field, its occurrences so far (capped)
    spoken,     \* per open element, whether text that counts was read in it
    twin,       \* the same call on the same tokens, skipSystemLines flipped
    probe       \* one evaluation of a helper function on its own

vars == <<opt, tags, currLine, lines, binfo, t, pc, n, doc, texts,
          closedAuthors, authorNames, lastMeta, occ, spoken, twin, probe>>

observers == <<texts, closedAuthors, authorNames, lastMeta, occ, spoken, twin>>

NoToken == [kind |-> "none"]
StartTok(name, attr) == [kind |-> "start", name |-> name, attr |-> attr]
EndTok(name)         == [kind |-> "end", name |-> name]
TextTok(ss)          == [kind |-> "text", data |-> ss]

EmptyBookInfo ==
    [Authors |-> <<>>, Title |-> <<>>, Sequence |-> <<>>,
     Language |-> <<>>, Genre |-> <<>>]

Fields == {"Title", "Language", "Genre", "Sequence"}

\* The twin call is not followed.
NoTwin ==
    [on |-> FALSE, skip |-> FALSE, tags |-> <<>>, currLine |-> <<>>,
     lines |-> <<>>, binfo |-> EmptyBookInfo]

NoProbe == [fn |-> "none"]

\* The state at line 197, for the options opt0 and the document d.
InitWith(opt0, d) ==
    /\ twin = NoTwin
    /\ probe = NoProbe
    /\ spoken = <<>>
    /\ opt = opt0
    /\ tags = <<>>
    /\ currLine = <<>>
    /\ lines = <<>>
    /\ binfo = EmptyBookInfo
    /\ t = NoToken
    /\ pc = "loop"
    /\ n = 0
    /\ doc = d
    /\ texts = <<>>
    /\ closedAuthors = 0
    /\ authorNames = [first |-> 0, last |-> 0]
    /\ lastMeta = [f \in Fields |-> <<>>]
    /\ occ = [f \in Fields |-> 0]

Options == [parseBody : BOOLEAN, skipSystemLines : BOOLEAN]

Init == \E o \in Options : InitWith(o, <<>>)

\* ------------------------------------------------- start-tag handling
Inline(name) == name = "emphasis" \/ name = "strong"

\* Lines 225-238: the line buffer a fresh text-bearing element starts with,
\* read off the stack before the element's own name is pushed.
Seed(name, path) ==
    IF name = "text-author" /\ isInside(path, "epigraph") THEN <<EPIAUTH>>
    ELSE IF name = "p" THEN
        IF isInside(path, "epigraph") THEN <<EPI>>
        ELSE IF isInside(path, "title") THEN <<TITLE>>
        ELSE <<>>
    ELSE <<>>

\* Lines 211-216: what a start-tag appends to the output.
StartLinesBug(name, skip, ls) ==
    IF name = "empty-line" /\ ~skip THEN <<<<>>>> \o ls
    ELSE IF name = "section" /\ ~skip THEN <<<<SECTION>>>>
    ELSE ls
StartLines(name, skip, ls) ==
    IF name = "empty-line" /\ ~skip THEN Append(ls, <<>>)
    ELSE IF name = "section" /\ ~skip THEN Append(ls, <<SECTION>>)
    ELSE ls

\* Lines 211-239: the line buffer after a start-tag.
StartCurrBug(name, skip, path, line) ==
    IF name = "empty-line" /\ ~skip THEN <<>>
    ELSE IF name = "section" /\ ~skip THEN <<>>
    ELSE IF Inline(name) /\ ~skip THEN line \o <<EMON>>
    ELSE IF name = "sequence" THEN line
    ELSE line \o Seed(name, path)
StartCurr(name, skip, path, line) ==
    IF name = "empty-line" /\ ~skip THEN <<>>
    ELSE IF name = "section" /\ ~skip THEN <<>>
    ELSE IF Inline(name) /\ ~skip THEN line \o <<EMON>>
    ELSE IF name = "sequence" THEN line
    ELSE Seed(name, path)

\* Lines 220-224: the loop over the attributes of a sequence element.
RECURSIVE SequenceName(_, _)
SequenceName(attr, seq) ==
    IF attr = <<>> THEN seq
    ELSE SequenceName(Tail(attr),
                      IF Head(attr).Name = "name" THEN Head(attr).Value ELSE seq)

\* Lines 211-224: BookInfo.Sequence after a start-tag.
StartSequence(name, skip, attr, seq) ==
    IF name = "empty-line" /\ ~skip THEN seq
    ELSE IF name = "section" /\ ~skip THEN seq
    ELSE IF Inline(name) /\ ~skip THEN seq
    ELSE IF name = "sequence" THEN SequenceName(attr, seq)
    ELSE seq

Cap(k) == IF k < 2 THEN k + 1 ELSE 2

\* Lines 211-240 in the twin call w.
TwinStart(w, name, attr) ==
    [w EXCEPT
       !.tags = Append(@, name),
       !.currLine = StartCurr(name, w.skip, w.tags, @),
       !.lines = StartLines(name, w.skip, @),
       !.binfo = [@ EXCEPT !.Sequence = StartSequence(name, w.skip, attr, @)]]

\* Lines 206-240, for the start-tag <name attr>.
StartElement(name, attr) ==
    /\ pc = "loop"
    /\ t' = StartTok(name, attr)
    /\ n' = n + 1
    /\ IF ~opt.parseBody /\ name = "body"
       THEN /\ pc' = "return208"
            /\ UNCHANGED <<opt, tags, currLine, lines, binfo, doc, observers>>
       ELSE /\ pc' = "loop"
            /\ lines' = StartLines(name, opt.skipSystemLines, lines)
            /\ currLine' = StartCurr(name, opt.skipSystemLines, tags, currLine)
            /\ binfo' = [binfo EXCEPT !.Sequence =
                           StartSequence(name, opt.skipSystemLines, attr, @)]
            /\ tags' = Append(tags, name)
            /\ texts' = Append(texts, <<>>)
            /\ spoken' = Append(spoken, FALSE)
            /\ twin' = IF twin.on THEN TwinStart(twin, name, attr) ELSE twin
            /\ authorNames' = IF name = "author" THEN [first |-> 0, last |-> 0]
                              ELSE authorNames
            /\ IF name = "sequence" /\ isInBookInfo(tags)
                  /\ \E i \in 1..Len(attr) : attr[i].Name = "name"
               THEN /\ lastMeta' = [lastMeta EXCEPT
                                      !.Sequence = SequenceName(attr, <<>>)]
                    /\ occ' = [occ EXCEPT !.Sequence = Cap(@)]
               ELSE UNCHANGED <<lastMeta, occ>>
            /\ UNCHANGED <<opt, doc, closedAuthors>>
    /\ UNCHANGED probe

\* --------------------------------------------------- end-tag handling
Pop(path) == SubSeq(path, 1, Len(path) - 1)

\* Line 242: the end-tag does not close the element on top of the stack.
MismatchBug(path, name) == FALSE
Mismatch(path, name) == path # <<>> /\ path[Len(path)] # name

\* Lines 252-253: binfo.Authors[len-1] of an empty list.
NoAuthorYet(name, popped, b) ==
    /\ isInBookInfo(popped)
    /\ name = "last-name" /\ isInside(popped, "author")
    /\ b.Authors = <<>>

\* Lines 246-260: BookInfo after the end-tag, popped being the stack after
\* the pop.
EndInfo(name, popped, line, b) ==
    IF ~isInBookInfo(popped) THEN b
    ELSE IF name = "genre" THEN [b EXCEPT !.Genre = line]
    ELSE IF name = "first-name" /\ isInside(popped, "author")
         THEN [b EXCEPT !.Authors =
                  Append(@, [FirstName |-> line, LastName |-> <<>>])]
    ELSE IF name = "last-name" /\ isInside(popped, "author")
         THEN [b EXCEPT !.Authors[Len(b.Authors)].LastName = line]
    ELSE IF name = "book-title" THEN [b EXCEPT !.Title = line]
    ELSE IF name = "lang" THEN [b EXCEPT !.Language = line]
    ELSE b

\* Line 262-263: the end-tag that ends the call.
BodyClosed(name, popped) ==
    ~isInBookInfo(popped) /\ isInBookContent(popped) /\ name = "body"

\* Lines 246-274: the line buffer after the end-tag.
EndCurr(name, popped, line) ==
    IF isInBookInfo(popped) THEN line
    ELSE IF isInBookContent(popped) THEN
        IF name = "body" THEN line
        ELSE IF Inline(name) THEN line \o <<EMOFF>>
        ELSE <<>>
    ELSE <<>>

\* Lines 261-271: the output after the end-tag.
EndLinesBug(name, popped, line, ls) ==
    IF /\ ~isInBookInfo(popped)
       /\ name # "body"
       /\ ~Inline(name)
       /\ line # <<>>
    THEN Append(ls, line)
    ELSE ls
EndLines(name, popped, line, ls) ==
    IF /\ ~isInBookInfo(popped)
       /\ isInBookContent(popped)
       /\ name # "body"
       /\ ~Inline(name)
       /\ line # <<>>
    THEN Append(ls, line)
    ELSE ls

\* The text of the element being closed goes to its parent when the element
\* is an inline one: a paragraph's text includes its emphasised spans.
PopTexts(name, txs) ==
    IF Inline(name) /\ Len(txs) >= 2
    THEN [Pop(txs) EXCEPT ![Len(txs) - 1] = @ \o txs[Len(txs)]]
    ELSE Pop(txs)

MetaField(name) ==
    CASE name = "book-title" -> "Title"
      [] name = "lang" -> "Language"
      [] name = "genre" -> "Genre"
      [] OTHER -> "none"

\* Lines 245-274 in the twin call w.
TwinEnd(w, name) ==
    [w EXCEPT
       !.tags = Pop(@),
       !.currLine = EndCurr(name, Pop(w.tags), @),
       !.lines = EndLines(name, Pop(w.tags), w.currLine, @),
       !.binfo = EndInfo(name, Pop(w.tags), w.currLine, @)]

\* Lines 276-281 in the twin call w.
TwinText(w, ss) == [w EXCEPT !.currLine = AppendChunk(@, ss)]

\* Lines 241-274, for the end-tag </name>.
EndElement(name) ==
    /\ pc = "loop"
    /\ t' = EndTok(name)
    /\ n' = n + 1
    /\ IF tags = <<>>
       THEN /\ pc' = "panic242"
            /\ UNCHANGED <<opt, tags, currLine, lines, binfo, doc, observers>>
       ELSE IF Mismatch(tags, name)
       THEN /\ pc' = "panic243"
            /\ UNCHANGED <<opt, tags, currLine, lines, binfo, doc, observers>>
       ELSE LET popped == Pop(tags) IN
            /\ tags' = popped
            /\ texts' = PopTexts(name, texts)
            /\ spoken' = Pop(spoken)
            /\ twin' = IF twin.on /\ ~NoAuthorYet(name, popped, binfo)
                       THEN TwinEnd(twin, name) ELSE twin
            /\ IF NoAuthorYet(name, popped, binfo)
               THEN /\ pc' = "panic253"
                    /\ UNCHANGED <<currLine, lines, binfo>>
               ELSE /\ pc' = IF BodyClosed(name, popped)
                             THEN "return263" ELSE "loop"
                    /\ binfo' = EndInfo(name, popped, currLine, binfo)
                    /\ lines' = EndLines(name, popped, currLine, lines)
                    /\ currLine' = EndCurr(name, popped, currLine)
            /\ closedAuthors' =
                 IF name = "author" /\ isInBookInfo(popped)
                 THEN closedAuthors + 1 ELSE closedAuthors
            /\ authorNames' =
                 IF isInBookInfo(popped) /\ isInside(popped, "author")
                 THEN IF name = "first-name"
                      THEN [authorNames EXCEPT !.first = Cap(@)]
                      ELSE IF name = "last-name"
                      THEN [authorNames EXCEPT !.last = Cap(@)]
                      ELSE authorNames
                 ELSE authorNames
            /\ IF isInBookInfo(popped) /\ MetaField(name) # "none"
               THEN /\ lastMeta' = [lastMeta EXCEPT
                                      ![MetaField(name)] = texts[Len(texts)]]
                    /\ occ' = [occ EXCEPT ![MetaField(name)] = Cap(@)]
               ELSE UNCHANGED <<lastMeta, occ>>
            /\ UNCHANGED <<opt, doc>>
    /\ UNCHANGED probe

\* ---------------------------------------------- character-data handling
\* Lines 275-282, for the chunk ss.
CharData(ss) ==
    /\ pc = "loop"
    /\ t' = TextTok(ss)
    /\ n' = n + 1
    /\ currLine' = AppendChunk(currLine, ss)
    /\ texts' = IF texts = <<>> THEN texts
                ELSE [texts EXCEPT ![Len(texts)] = @ \o Normal(ss)]
    /\ spoken' = IF Normal(ss) = <<>> THEN spoken
                 ELSE [i \in 1..Len(spoken) |-> TRUE]
    /\ twin' = IF twin.on THEN TwinText(twin, ss) ELSE twin
    /\ UNCHANGED <<opt, tags, lines, binfo, pc, doc,
                   closedAuthors, authorNames, lastMeta, occ, probe>>

\* Line 205: a token of another type (a comment, a processing instruction, a
\* directive) matches no case of the switch.
Ignored ==
    /\ pc = "loop"
    /\ t' = [kind |-> "other"]
    /\ n' = n + 1
    /\ UNCHANGED <<opt, tags, currLine, lines, binfo, pc, doc, observers, probe>>

\* Lines 199-202 and 285: Token() returns nil, at the end of the input or at
\* an error of the decoder.
Exhausted ==
    /\ pc = "loop"
    /\ t' = [kind |-> "nil"]
    /\ pc' = "return285"
    /\ UNCHANGED <<opt, tags, currLine, lines, binfo, n, doc, observers, probe>>

\* ------------------------------------------------------- the documents
\* The elements the decoder may open under an element: the FB2 nesting the
\* parser looks at, and the misplaced elements its branches react to.
Children(parent) ==
    CASE parent = "FictionBook"  -> {"description", "body"}
      [] parent = "description"  -> {"title-info", "publish-info"}
      [] parent = "title-info"   -> {"author", "book-title", "lang", "genre",
                                     "sequence", "annotation"}
      [] parent = "publish-info" -> {"sequence"}
      [] parent = "annotation"   -> {"empty-line", "section"}
      [] parent = "author"       -> {"first-name", "last-name"}
      [] parent = "body"         -> {"section", "title", "epigraph", "p", "body"}
      [] parent = "section"      -> {"title", "p", "empty-line"}
      [] parent = "title"        -> {"p"}
      [] parent = "epigraph"     -> {"p", "text-author", "section"}
      [] parent = "p"            -> {"emphasis", "strong"}
      [] parent = "text-author"  -> {"emphasis"}
      [] OTHER -> {}

Names == {"FictionBook", "description", "title-info", "publish-info",
          "annotation", "author", "first-name", "last-name", "book-title",
          "lang", "genre", "sequence", "body", "section", "title", "epigraph",
          "p", "text-author", "emphasis", "strong", "empty-line"}

Offered(path) ==
    IF path = <<>> THEN {"FictionBook"} ELSE Children(path[Len(path)])

\* The attribute lists of a start-tag.
Attrs(name) ==
    IF name = "sequence"
    THEN {<<>>,
          <<[Name |-> "name", Value |-> <<"s1">>]>>,
          <<[Name |-> "name", Value |-> <<"s2">>],
            [Name |-> "number", Value |-> <<"1">>]>>}
    ELSE {<<>>}

\* The chunks of character data.
Chunks == {<<"a">>, <<"\n", " ", "b">>, <<" ", "\r">>}

\* The end-tag that closes the parent of the innermost open element (its own
\* end-tag is missing), or any end-tag when nothing is open.
WrongEnds(path) ==
    IF path = <<>> THEN {"FictionBook"}
    ELSE IF Len(path) = 1 THEN {}
    ELSE {path[Len(path) - 1]} \ {path[Len(path)]}

\* The element names of a document that holds the description's fields alone.
InfoNames == {"FictionBook", "description", "title-info", "publish-info",
              "book-title", "lang", "genre", "sequence"}

Open(names) ==
    /\ Len(tags) < MaxDepth
    /\ \E name \in Offered(tags) \cap names : \E attr \in Attrs(name) :
          StartElement(name, attr)

Close == tags # <<>> /\ EndElement(tags[Len(tags)])

CloseWrong == \E name \in WrongEnds(tags) : EndElement(name)

Text == \E ss \in Chunks : CharData(ss)

\* A document of any shape.
Next ==
    \/ n < MaxTokens /\ Open(Names)
    \/ n < MaxTokens /\ Close
    \/ n < MaxTokens /\ CloseWrong
    \/ n < MaxTokens /\ Text
    \/ n < MaxTokens /\ Ignored
    \/ Exhausted

Spec == Init /\ [][Next]_vars

\* Two calls on one document, with parseBody both: the call followed, with
\* skipSystemLines, and the twin call without it.
InitPair ==
    /\ twin = [NoTwin EXCEPT !.on = TRUE, !.skip = FALSE]
    /\ probe = NoProbe
    /\ spoken = <<>>
    /\ opt = [parseBody |-> TRUE, skipSystemLines |-> TRUE]
    /\ tags = <<>>
    /\ currLine = <<>>
    /\ lines = <<>>
    /\ binfo = EmptyBookInfo
    /\ t = NoToken
    /\ pc = "loop"
    /\ n = 0
    /\ doc = <<>>
    /\ texts = <<>>
    /\ closedAuthors = 0
    /\ authorNames = [first |-> 0, last |-> 0]
    /\ lastMeta = [f \in Fields |-> <<>>]
    /\ occ = [f \in Fields |-> 0]

SpecPair == InitPair /\ [][Next]_vars

\* A document that holds the description's fields alone.
NextInfo ==
    \/ n < MaxInfoTokens /\ Open(InfoNames)
    \/ n < MaxInfoTokens /\ Close
    \/ n < MaxInfoTokens /\ CloseWrong
    \/ n < MaxInfoTokens /\ Text
    \/ Exhausted

SpecInfo == Init /\ [][NextInfo]_vars

\* ------------------------------------------------- the functions alone
\* No call of ParseBook runs; the probe holds the arguments of one call of a
\* function of the package.
InitProbe(pr) ==
    /\ probe = pr
    /\ twin = NoTwin
    /\ spoken = <<>>
    /\ opt = [parseBody |-> FALSE, skipSystemLines |-> FALSE]
    /\ tags = <<>>
    /\ currLine = <<>>
    /\ lines = <<>>
    /\ binfo = EmptyBookInfo
    /\ t = NoToken
    /\ pc = "probe"
    /\ n = 0
    /\ doc = <<>>
    /\ texts = <<>>
    /\ closedAuthors = 0
    /\ authorNames = [first |-> 0, last |-> 0]
    /\ lastMeta = [f \in Fields |-> <<>>]
    /\ occ = [f \in Fields |-> 0]

Frame == <<opt, tags, currLine, lines, binfo, t, pc, n, doc, observers>>

SeqsUpTo(S, k) == UNION {[1..m -> S] : m \in 0..k}

\* The stacks and the targets isInside is called with.
PathNames == PassThrough \cup {"epigraph", "section", "title"}
Targets == {"epigraph", "title", "p"}

InitInside ==
    \E path \in SeqsUpTo(PathNames, MaxPath), sectionName \in Targets :
        InitProbe([fn |-> "isInside", path |-> path,
                   sectionName |-> sectionName,
                   done |-> FALSE, result |-> FALSE])

\* Lines 75-93: one call of isInside.
CallIsInside ==
    /\ probe.fn = "isInside"
    /\ ~probe.done
    /\ probe' = [probe EXCEPT !.done = TRUE,
                              !.result = isInside(probe.path, probe.sectionName)]
    /\ UNCHANGED Frame

SpecInside == InitInside /\ [][CallIsInside]_vars

\* The chunks of character data: newline, carriage return, space, and a
\* character that is none of them.
TextChars == {"\n", "\r", " ", "a"}

InitText ==
    \E ss \in SeqsUpTo(TextChars, MaxChunk) :
        InitProbe([fn |-> "normal", ss |-> ss, calls |-> 0,
                   once |-> <<>>, twice |-> <<>>])

\* Lines 276-279: the rule applied to the chunk, then to its own result.
CallNormal ==
    /\ probe.fn = "normal"
    /\ probe.calls < 2
    /\ probe' = IF probe.calls = 0
                THEN [probe EXCEPT !.calls = 1, !.once = Normal(probe.ss)]
                ELSE [probe EXCEPT !.calls = 2, !.twice = Normal(probe.once)]
    /\ UNCHANGED Frame

SpecText == InitText /\ [][CallNormal]_vars

\* A document of any shape whose character data outside the body region is
\* written with letters of its own.
OutChars == {"x", "y"}
OutChunks == {<<"x">>, <<"\n", " ", "y">>, <<" ", "\r">>}

TextMarked ==
    \E ss \in (IF isInBookContent(tags) THEN Chunks ELSE OutChunks) :
        CharData(ss)

NextMarked ==
    \/ n < MaxTokens /\ Open(Names)
    \/ n < MaxTokens /\ Close
    \/ n < MaxTokens /\ CloseWrong
    \/ n < MaxTokens /\ TextMarked
    \/ n < MaxTokens /\ Ignored
    \/ Exhausted

SpecMarked == Init /\ [][NextMarked]_vars

\* ------------------------------------------------ one fixed document
\* Texts that text normalisation leaves as they are.
Words == {<<"a">>, <<"b">>, <<"a", " ", "b">>}

\* <FictionBook><description><title-info><book-title>T</book-title>
\* <author><first-name>F</first-name><last-name>L</last-name></author>
\* </title-info></description><body><p>X</p></body></FictionBook>
Dune(T, F, L, X) ==
    << StartTok("FictionBook", <<>>), StartTok("description", <<>>),
       StartTok("title-info", <<>>),
       StartTok("book-title", <<>>), TextTok(T), EndTok("book-title"),
       StartTok("author", <<>>),
       StartTok("first-name", <<>>), TextTok(F), EndTok("first-name"),
       StartTok("last-name", <<>>), TextTok(L), EndTok("last-name"),
       EndTok("author"), EndTok("title-info"), EndTok("description"),
       StartTok("body", <<>>),
       StartTok("p", <<>>), TextTok(X), EndTok("p"),
       EndTok("body"), EndTok("FictionBook") >>

InitDoc ==
    \E o \in Options : \E T \in Words, F \in Words, L \in Words, X \in Words :
        InitWith(o, Dune(T, F, L, X))

\* The decoder hands out the tokens of doc in order, then nil.
DocStart ==
    /\ n < Len(doc) /\ doc[n + 1].kind = "start"
    /\ StartElement(doc[n + 1].name, doc[n + 1].attr)

DocEnd ==
    /\ n < Len(doc) /\ doc[n + 1].kind = "end"
    /\ EndElement(doc[n + 1].name)

DocText ==
    /\ n < Len(doc) /\ doc[n + 1].kind = "text"
    /\ CharData(doc[n + 1].data)

DocExhausted == n = Len(doc) /\ Exhausted

NextDoc == DocStart \/ DocEnd \/ DocText \/ DocExhausted

SpecDoc == InitDoc /\ [][NextDoc]_vars

\* ------------------------------------------------------------ properties
TypeOK ==
    /\ opt \in Options
    /\ pc \in {"loop", "return208", "return263", "return285",
               "panic242", "panic243", "panic253"}
    /\ Len(texts) = Len(tags)
    /\ Len(spoken) = Len(tags)

Returned == {"return208", "return263", "return285"}
Panicked == {"panic242", "panic243", "panic253"}

\* The step reads the end-tag of the innermost open element.
ClosesTop == /\ n' = n + 1 /\ t'.kind = "end"
             /\ tags # <<>> /\ t'.name = tags[Len(tags)]

IsPrefix(s1, s2) == Len(s1) <= Len(s2) /\ SubSeq(s2, 1, Len(s1)) = s1

\* C1: with parseBody false the returned Output Lines are empty, and the call
\* returns at the first start-tag named body, whatever elements precede it and
\* also when the input ends with no body start-tag.
C1_NoLinesWithoutParseBody ==
    ~opt.parseBody =>
        /\ pc \in Returned => lines = <<>>
        /\ (t.kind = "start" /\ t.name = "body") => pc = "return208"

\* C2: an end-tag that does not name the element on top of the stack makes
\* the parse fail there: that step appends no line and changes no BookInfo
\* field, and the failed parse still has that end-tag as its last token and
\* the stack it met, so nothing was processed after it.
C2_MismatchStops ==
    /\ [][ (n' = n + 1 /\ t'.kind = "end"
            /\ tags # <<>> /\ t'.name # tags[Len(tags)])
           => (pc' = "panic243" /\ lines' = lines /\ binfo' = binfo
               /\ tags' = tags) ]_vars
    /\ [](pc = "panic243" =>
            (t.kind = "end" /\ tags # <<>> /\ t.name # tags[Len(tags)]))

C2_Witness ==
    pc = "panic243" /\ t = EndTok("author") /\ tags[Len(tags)] = "first-name"

\* C3: with skipSystemLines no output line is {{section}}, none is blank, and
\* none holds {{emon}} or {{emoff}}.
C3_NoSystemOutputWhenSkipping ==
    opt.skipSystemLines =>
        \A i \in 1..Len(lines) :
            /\ lines[i] # <<SECTION>>
            /\ lines[i] # <<>>
            /\ \A j \in 1..Len(lines[i]) : lines[i][j] \notin InlineMarkers

\* C4: the document of one book-title T, one author (F, L) and one body
\* paragraph X ends with BookInfo{title T, authors [(F, L)]} and, with
\* parseBody, the lines [X] after the whole input was read; without parseBody
\* it ends with the same BookInfo and no lines, at the body start-tag.
C4_DuneScenario ==
    pc # "loop" =>
        \E T \in Words, F \in Words, L \in Words, X \in Words :
            /\ doc = Dune(T, F, L, X)
            /\ binfo = [EmptyBookInfo EXCEPT
                          !.Title = T,
                          !.Authors = <<[FirstName |-> F, LastName |-> L]>>]
            /\ IF opt.parseBody
               THEN lines = <<X>> /\ pc = "return285" /\ n = Len(doc)
               ELSE lines = <<>> /\ pc = "return208"
                    /\ t = StartTok("body", <<>>)

C4_Witness ==
    /\ pc = "return285" /\ opt.parseBody
    /\ Len(lines) = 1 /\ Len(binfo.Authors) = 1 /\ binfo.Title # <<>>

\* C5: at every point the number of recorded authors is the number of author
\* elements closed inside the metadata region.
C5_AuthorsCountClosedAuthorElements == Len(binfo.Authors) = closedAuthors

\* C6: inside an author element of the metadata region, the end of a
\* last-name that no first-name preceded records a new Author with an empty
\* firstName and that lastName, without failing and without touching the
\* authors recorded before; and an author element that closes with a
\* first-name alone leaves an Author with an empty lastName.
C6_NamesIndependent ==
    [][ /\ (/\ ClosesTop /\ t'.name = "last-name"
            /\ isInBookInfo(Pop(tags)) /\ isInside(Pop(tags), "author")
            /\ authorNames.first = 0 /\ authorNames.last = 0)
           => /\ pc' = "loop"
              /\ binfo'.Authors =
                    Append(binfo.Authors,
                           [FirstName |-> <<>>,
                            LastName |-> texts[Len(texts)]])
        /\ (/\ ClosesTop /\ t'.name = "author"
            /\ isInBookInfo(Pop(tags))
            /\ authorNames.first = 1 /\ authorNames.last = 0)
           => /\ binfo'.Authors # <<>>
              /\ binfo'.Authors[Len(binfo'.Authors)].LastName = <<>>
      ]_vars

\* C7: a returned BookInfo field whose element occurred more than once in the
\* metadata region holds the value of the last of these occurrences.
C7_LastWriteWins ==
    pc \in Returned =>
        \A f \in Fields : occ[f] >= 2 => binfo[f] = lastMeta[f]

\* C8: every step leaves the output lines it found as a prefix of the output
\* lines it leaves.
C8_AppendOnly == [][IsPrefix(lines, lines')]_vars

C8_Witness ==
    /\ Len(lines) >= 2
    /\ lines[1] = <<SECTION>>
    /\ lines[2] # <<>> /\ lines[2][1] \notin LineStartMarkers

\* A line-start marker, if the line has one, is the line's first atom.
MarkerAtStartOnly(line) ==
    \A j \in 2..Len(line) : line[j] \notin LineStartMarkers

\* C9: in the line buffer and in every output line, {{section}}, {{title}},
\* {{epi}} and {{epiauth}} stand at position 0 or nowhere.
C9_MarkersAtLineStart ==
    /\ MarkerAtStartOnly(currLine)
    /\ \A i \in 1..Len(lines) : MarkerAtStartOnly(lines[i])

C9_Witness ==
    \E i \in 1..Len(lines) :
        /\ Len(lines[i]) >= 3
        /\ lines[i][1] \in LineStartMarkers
        /\ EMON \in {lines[i][j] : j \in 2..Len(lines[i])}

\* The nearest ancestor that is not a pass-through element, "" if none.
RECURSIVE Nearest(_)
Nearest(path) ==
    IF path = <<>> THEN ""
    ELSE IF path[Len(path)] \in PassThrough THEN Nearest(Pop(path))
    ELSE path[Len(path)]

\* The marker C10 gives the element name under the ancestors path.
ClaimedSeed(name, path) ==
    IF name = "p" /\ Nearest(path) = "epigraph" THEN <<EPI>>
    ELSE IF name = "p" /\ Nearest(path) = "title" THEN <<TITLE>>
    ELSE IF name = "text-author" /\ Nearest(path) = "epigraph" THEN <<EPIAUTH>>
    ELSE <<>>

StripInline(line) == SelectSeq(line, LAMBDA c : c \notin InlineMarkers)

\* C10: in the body region the end of a p under an epigraph, of a p under a
\* title and of a text-author under an epigraph appends exactly one line, the
\* marker followed by the element's text (inline emphasis markers aside);
\* the end of any other p appends its text with no marker, or nothing when it
\* has no text.
C10_SeededLines ==
    [][ (/\ ClosesTop /\ t'.name \in {"p", "text-author"}
         /\ isInBookContent(Pop(tags)))
        => LET seed == ClaimedSeed(t'.name, Pop(tags))
               text == texts[Len(texts)]
               one  == /\ Len(lines') = Len(lines) + 1
                       /\ IsPrefix(lines, lines')
                       /\ StripInline(lines'[Len(lines')]) = seed \o text
           IN  IF seed # <<>> THEN one
               ELSE t'.name = "p" => (one \/ (text = <<>> /\ lines' = lines))
      ]_vars

\* C11: the end-tag of a body element ends the call there (return at line
\* 263), so nothing after it is read.
C11_BodyEndReturns ==
    [][ (ClosesTop /\ t'.name = "body" /\ opt.parseBody)
        => pc' = "return263" ]_vars

\* C12: in the body region, the end-tag of an element other than emphasis and
\* strong, between whose start-tag and end-tag no text but whitespace was
\* read, leaves the output lines as they are.
C12_NoTextNoLine ==
    [][ (/\ ClosesTop /\ ~Inline(t'.name)
         /\ isInBookContent(Pop(tags))
         /\ ~spoken[Len(spoken)])
        => lines' = lines ]_vars

\* C13: a token read while the stack does not begin with FictionBook, body
\* leaves the output lines as they are.
C13_LinesOnlyInBody ==
    [][ (n' = n + 1 /\ ~isInBookContent(tags)) => lines' = lines ]_vars

\* C14: no output line holds a character of a text token read while the stack
\* did not begin with FictionBook, body; nor does the line buffer while the
\* stack begins with FictionBook, body.
C14_OutsideTextDiscarded ==
    /\ \A i \in 1..Len(lines) : \A j \in 1..Len(lines[i]) :
          lines[i][j] \notin OutChars
    /\ isInBookContent(tags) =>
          \A j \in 1..Len(currLine) : currLine[j] \notin OutChars

C14_Witness ==
    /\ texts # <<>> /\ texts[1] = <<"x">>
    /\ isInBookContent(tags)
    /\ lines = << <<"a">> >>

\* C15: a token read while the stack (for an end-tag, the stack after the
\* pop) does not begin with FictionBook, description, title-info leaves every
\* field of BookInfo as it is.
C15_BookInfoOnlyInMetadata ==
    [][ (/\ n' = n + 1
         /\ ~isInBookInfo(IF t'.kind = "end" /\ tags # <<>>
                          THEN Pop(tags) ELSE tags))
        => binfo' = binfo ]_vars

\* C16: while the call runs, a start-tag pushes its name, the end-tag of the
\* innermost open element pops one name, no other token changes the stack; and
\* the call does not return normally at the end of the input while an element
\* is still open.
C16_StackIsOpenElements ==
    [][ /\ (n' = n + 1 /\ t'.kind = "start" /\ pc' = "loop")
            => tags' = Append(tags, t'.name)
        /\ ClosesTop => tags' = Pop(tags)
        /\ (n' = n + 1 /\ t'.kind \in {"text", "other"}) => tags' = tags
        /\ (pc = "loop" /\ pc' = "return285") => tags = <<>> ]_vars

\* C17: isInside(stack, target) is true exactly when some entry of the stack
\* is the target and every entry above it is one of p, emphasis, text-author,
\* strong; so it is false for the empty stack.
C17_IsInsideCharacterised ==
    (probe.fn = "isInside" /\ probe.done) =>
        /\ probe.result =
             (\E i \in 1..Len(probe.path) :
                 /\ probe.path[i] = probe.sectionName
                 /\ \A j \in (i + 1)..Len(probe.path) :
                        probe.path[j] \in {"p", "emphasis", "text-author", "strong"})
        /\ probe.path = <<>> => ~probe.result

C17_Witness ==
    /\ probe.fn = "isInside" /\ probe.done
    /\ probe.path = <<"section", "epigraph", "p", "emphasis">>
    /\ probe.sectionName = "epigraph"
    /\ probe.result

\* C18: the normalisation of character data (an all-whitespace chunk is
\* dropped, otherwise newline and carriage return become spaces and runs of
\* spaces become one), applied to its own result, returns that result.
C18_NormalIdempotent ==
    (probe.fn = "normal" /\ probe.calls = 2) => probe.twice = probe.once

C18_Witness ==
    /\ probe.fn = "normal" /\ probe.calls = 2
    /\ probe.ss = <<"a", "\n", " ", "a">>
    /\ probe.once = <<"a", " ", "a">>
    /\ probe.twice = <<"a", " ", "a">>

\* The chunk is made of newline, carriage return and space alone.
AllBlank(ss) == \A i \in 1..Len(ss) : ss[i] \in {"\n", "\r", " "}

\* The chunk with newline and carriage return read as spaces.
Spaced(ss) == [i \in 1..Len(ss) |-> IF ss[i] = "\n" \/ ss[i] = "\r" THEN " " ELSE ss[i]]

\* The positions that remain when each run of spaces is cut down to its first.
Kept(ss) == {i \in 1..Len(ss) :
                ~(i > 1 /\ Spaced(ss)[i] = " " /\ Spaced(ss)[i - 1] = " ")}

Collapse(ss) ==
    [k \in 1..Cardinality(Kept(ss)) |->
        Spaced(ss)[CHOOSE i \in Kept(ss) :
                      Cardinality({j \in Kept(ss) : j <= i}) = k]]

\* C19: a text token leaves the stack, the output lines and BookInfo as they
\* are; the line buffer is left alone by an all-whitespace chunk and otherwise
\* gains at its end the chunk with newline and carriage return turned into
\* spaces and each run of spaces cut to one.
C19_TextChangesOnlyLineBuffer ==
    [][ (n' = n + 1 /\ t'.kind = "text") =>
          /\ tags' = tags
          /\ lines' = lines
          /\ binfo' = binfo
          /\ currLine' = IF AllBlank(t'.data) THEN currLine
                         ELSE currLine \o Collapse(t'.data) ]_vars

C19_Witness ==
    /\ t = TextTok(<<"\n", " ", "b">>)
    /\ currLine = <<"a", " ", "b">>
    /\ isInBookContent(tags)

\* A line without its {{emon}} and {{emoff}}.
Unmarked(line) == SelectSeq(line, LAMBDA c : c \notin InlineMarkers)

\* The lines without the {{section}} lines and the blank lines, and without
\* {{emon}} and {{emoff}} in the lines that stay.
RECURSIVE Unsystem(_)
Unsystem(ls) ==
    IF ls = <<>> THEN <<>>
    ELSE IF Head(ls) = <<SECTION>> \/ Head(ls) = <<>> THEN Unsystem(Tail(ls))
    ELSE <<Unmarked(Head(ls))>> \o Unsystem(Tail(ls))

\* C20: of two calls on one document with parseBody, the call with
\* skipSystemLines returns the lines of the call without it less the
\* {{section}} lines, the blank lines, {{emon}} and {{emoff}}; and the same
\* BookInfo.
C20_SkipRemovesOnlyMarkers ==
    (twin.on /\ pc \in Returned) =>
        /\ lines = Unsystem(twin.lines)
        /\ binfo = twin.binfo

====
